---- MODULE Spec2Model ----
(***************************************************************************)
(* The Xinanjiang (XAJ) rainfall-runoff model of src/src/xaj/xaj.py.       *)
(*                                                                         *)
(* Numbers.  The program computes in IEEE doubles; the model computes in   *)
(* fixed point: a real x is the integer x * Scale, and every product,      *)
(* quotient, power and root is rounded down to a multiple of 1/Scale       *)
(* right where the program's operation rounds.  Sums and differences are   *)
(* exact.  A non-finite double (nan, inf: numpy's result of a division by  *)
(* zero or of a fractional power of a negative base) is the value NaN,     *)
(* which every operation propagates and every comparison answers FALSE.    *)
(* The exponents B and EX are whole numbers, so that x ** (1 + b) is a     *)
(* repeated product and x ** (1 / (1 + b)) a whole root.  With four        *)
(* decimals the capacity curves, which multiply a capacity of some 100 mm  *)
(* by a rounded fraction, come out within a few hundredths of a mm of the  *)
(* program's values.                                                       *)
(***************************************************************************)
EXTENDS Integers, Sequences, FiniteSets, TLC

\* one unit of the model's fixed-point numbers is 1/Scale
Scale == 10 * 10 * 10 * 10

\* the largest number of timesteps of a forcing series
MaxT == 3

\* the largest number of basins in a batch
MaxBasins == 2

\* the largest number of slices of a runoff in the runs of sources5mm on its own
MaxSlices == 3

(***************************************************************************)
(* Fixed-point arithmetic on finite numbers.                               *)
(***************************************************************************)
\* x * y rounded down, by parts, so that no partial product is larger than
\* the result
MulParts(xh, xl, yh, yl) == xh * yh * Scale + xh * yl + xl * yh + (xl * yl) \div Scale

Mul(x, y) == MulParts(x \div Scale, x % Scale, y \div Scale, y % Scale)

\* the digits of r / y after the point, for 0 <= r < y, as a multiple of 1/m
RECURSIVE DivDigits(_, _, _)
DivDigits(r, y, m) ==
    IF m = 1 THEN 0
    ELSE ((r * 10) \div y) * (m \div 10) + DivDigits((r * 10) % y, y, m \div 10)

\* x / y rounded down, y # 0, by long division
Div(x, y) ==
    IF y > 0 THEN (x \div y) * Scale + DivDigits(x % y, y, Scale)
             ELSE ((0 - x) \div (0 - y)) * Scale + DivDigits((0 - x) % (0 - y), 0 - y, Scale)

Max(x, y) == IF x >= y THEN x ELSE y

Min(x, y) == IF x <= y THEN x ELSE y

\* np.clip(x, lo, hi)
Clip(x, lo, hi) == Min(Max(x, lo), hi)

\* x ** n for a whole n >= 0, rounded after every product
RECURSIVE IPow(_, _)
IPow(x, n) == IF n = 0 THEN Scale ELSE Mul(x, IPow(x, n - 1))

\* the largest r in lo..hi with r ** n <= x (lo ** n <= x is given)
RECURSIVE RootSearch(_, _, _, _)
RootSearch(lo, hi, x, n) ==
    IF lo >= hi THEN lo
    ELSE LET mid == (lo + hi + 1) \div 2
         IN  IF IPow(mid, n) <= x THEN RootSearch(mid, hi, x, n)
                                  ELSE RootSearch(lo, mid - 1, x, n)

\* x ** (1 / n) for a whole n >= 1 and 0 <= x <= 4
Root(x, n) == IF n = 1 THEN x ELSE RootSearch(0, 2 * Scale, x, n)

\* the decimal n/d as a fixed-point number
Dec(n, d) == (n * Scale) \div d

(***************************************************************************)
(* Non-finite doubles.                                                     *)
(***************************************************************************)
NaN == 0 - 2000000000

IsNaN(x) == x = NaN

FAdd(x, y) == IF IsNaN(x) \/ IsNaN(y) THEN NaN ELSE x + y

FSub(x, y) == IF IsNaN(x) \/ IsNaN(y) THEN NaN ELSE x - y

FMul(x, y) == IF IsNaN(x) \/ IsNaN(y) THEN NaN ELSE Mul(x, y)

\* numpy's array division: a zero divisor gives inf or nan (a warning, no error)
FDiv(x, y) == IF IsNaN(x) \/ IsNaN(y) \/ y = 0 THEN NaN ELSE Div(x, y)

\* x ** n, n whole
FPow(x, n) == IF IsNaN(x) THEN NaN ELSE IPow(x, n)

\* x ** (1 / n), n whole: nan for a negative base unless n = 1
FRoot(x, n) ==
    IF IsNaN(x) THEN NaN
    ELSE IF n = 1 THEN x
    ELSE IF x < 0 THEN NaN
    ELSE RootSearch(0, Max(Scale, x), x, n)

FLt(x, y) == ~IsNaN(x) /\ ~IsNaN(y) /\ x < y

FGt(x, y) == FLt(y, x)

FGe(x, y) == ~IsNaN(x) /\ ~IsNaN(y) /\ x >= y

\* np.maximum(x, y)
FMax(x, y) == IF IsNaN(x) \/ IsNaN(y) THEN NaN ELSE Max(x, y)

\* np.clip(x, lo, hi)
FClip(x, lo, hi) == IF IsNaN(x) THEN NaN ELSE Clip(x, lo, hi)

(***************************************************************************)
(* The parameter sets of the runs (params of xaj).  Depths are in mm,      *)
(* coefficients are fractions, both times Scale; B and EX are whole.       *)
(***************************************************************************)
ParamSets ==
    { [B |-> 1, IM |-> Dec(2, 100), UM |-> 20 * Scale, LM |-> 80 * Scale,
       DM |-> 60 * Scale, C |-> Dec(15, 100), SM |-> 35 * Scale, EX |-> 1,
       KI |-> Dec(2, 10), KG |-> Dec(3, 10),
       CI |-> Dec(7, 10), CG |-> Dec(95, 100), CS |-> Dec(1, 10)],
      [B |-> 2, IM |-> Dec(5, 100), UM |-> 15 * Scale, LM |-> 60 * Scale,
       DM |-> 40 * Scale, C |-> Dec(2, 10), SM |-> 20 * Scale, EX |-> 2,
       KI |-> Dec(3, 10), KG |-> Dec(15, 100),
       CI |-> Dec(5, 10), CG |-> Dec(9, 10), CS |-> 0] }

\* an optional argument: None, or a value
None == << >>

Some(v) == << v >>

(***************************************************************************)
(* calculate_evap: the three-layer evaporation of one basin.               *)
(***************************************************************************)
calculate_evap(lm, c, wu0, wl0, prcp, pet) ==
    LET eu == IF wu0 + prcp >= pet THEN pet ELSE wu0 + prcp
        ed == IF wl0 < Mul(c, lm) /\ wl0 < Mul(c, pet - eu)
              THEN Mul(c, pet - eu) - wl0 ELSE 0
        el == IF wu0 + prcp >= pet THEN 0
              ELSE IF wl0 >= Mul(c, lm) THEN Div(Mul(pet - eu, wl0), lm)
              ELSE IF wl0 >= Mul(c, pet - eu) THEN Mul(c, pet - eu)
              ELSE wl0
    IN  [eu |-> eu, el |-> el, ed |-> ed]

(***************************************************************************)
(* calculate_prcp_runoff: the runoff of net precipitation pe on a basin    *)
(* holding w0 (w0 <= wm, so the root's base is not negative).              *)
(***************************************************************************)
calculate_prcp_runoff(b, im, wm, w0, pe) ==
    LET wmm   == Div(wm * (1 + b), Scale - im)
        a     == Mul(wmm, Scale - Root(Scale - Div(w0, wm), 1 + b))
        r_cal == IF pe + a < wmm
                 THEN pe - (wm - w0) + Mul(wm, IPow(Scale - Div(a + pe, wmm), 1 + b))
                 ELSE pe - (wm - w0)
    IN  [r |-> Max(r_cal, 0), r_im |-> Max(Mul(pe, im), 0)]

\* the update of calculate_w_storage without its three final np.clip
calculate_w_storage_unclipped(um, lm, dm, wu0, wl0, wd0, eu, el, ed, p, r) ==
    LET e  == eu + el + ed
        pe == Max(p - e, 0)
        wu == IF pe > 0
              THEN (IF wu0 + pe - r < um THEN wu0 + pe - r ELSE um)
              ELSE wu0 - eu
        wd == IF pe > 0
              THEN (IF wu0 + wl0 + pe - r > um + lm
                    THEN wu0 + wl0 + wd0 + pe - r - um - lm ELSE wd0)
              ELSE wd0 - ed
        wl == IF pe > 0 THEN wu0 + wl0 + wd0 + pe - r - wu - wd ELSE wl0 - el
    IN  [wu |-> wu, wl |-> wl, wd |-> wd]

(***************************************************************************)
(* calculate_w_storage: the soil moisture of the three layers after the    *)
(* step.  Its p is what the caller passes; it takes e off p once more.     *)
(***************************************************************************)
calculate_w_storage(um, lm, dm, wu0, wl0, wd0, eu, el, ed, p, r) ==
    LET e  == eu + el + ed
        pe == Max(p - e, 0)
        wu == IF pe > 0
              THEN (IF wu0 + pe - r < um THEN wu0 + pe - r ELSE um)
              ELSE wu0 - eu
        wd == IF pe > 0
              THEN (IF wu0 + wl0 + pe - r > um + lm
                    THEN wu0 + wl0 + wd0 + pe - r - um - lm ELSE wd0)
              ELSE wd0 - ed
        wl == IF pe > 0 THEN wu0 + wl0 + wd0 + pe - r - wu - wd ELSE wl0 - el
    IN  [wu |-> Clip(wu, 0, um), wl |-> Clip(wl, 0, lm), wd |-> Clip(wd, 0, dm)]

(***************************************************************************)
(* generation, for one basin: p_and_e is <<prcp, pet>>, and wu0, wl0, wd0  *)
(* are optional.  For a batch, the test "if w0_ > wm" is in StepError.     *)
(***************************************************************************)
generation(p_and_e, P, wu0opt, wl0opt, wd0opt) ==
    LET prcp == Max(p_and_e[1], 0)
        pet  == Max(p_and_e[2], 0)
        wm   == P.UM + P.LM + P.DM
        wu0  == IF wu0opt = None THEN Mul(Dec(6, 10), P.UM) ELSE wu0opt[1]
        wl0  == IF wl0opt = None THEN Mul(Dec(6, 10), P.LM) ELSE wl0opt[1]
        wd0  == IF wd0opt = None THEN Mul(Dec(6, 10), P.DM) ELSE wd0opt[1]
        w0_  == wu0 + wl0 + wd0
        w0   == IF w0_ > wm THEN wm ELSE w0_
        ev   == calculate_evap(P.LM, P.C, wu0, wl0, prcp, pet)
        e    == ev.eu + ev.el + ev.ed
        pe   == Max(prcp - e, 0)
        ro   == calculate_prcp_runoff(P.B, P.IM, wm, w0, pe)
        ws   == calculate_w_storage(P.UM, P.LM, P.DM, wu0, wl0, wd0,
                                    ev.eu, ev.el, ev.ed, pe, ro.r)
    IN  [r |-> ro.r, rim |-> ro.r_im, e |-> e, pe |-> pe,
         wu |-> ws.wu, wl |-> ws.wl, wd |-> ws.wd,
         wu0 |-> wu0, wl0 |-> wl0, wd0 |-> wd0]

\* the threshold 1e-5 of the partitioners, as x < 1e-5 and x > 1e-5
Below1e5(x) == x < (Scale + 99999) \div 100000

Above1e5(x) == x > Scale \div 100000

(***************************************************************************)
(* sources, for one basin: the standard partitioner.  s0 and fr0 are       *)
(* optional.  Returns the three runoffs and the state pair (fr, s1), in    *)
(* the order of the return statement.                                      *)
(***************************************************************************)
sources(pe, r, P, s0opt, fr0opt) ==
    LET sm  == P.SM
        ex  == P.EX
        ms  == sm * (1 + ex)
        s0  == IF s0opt = None THEN Mul(Dec(60, 100), sm) ELSE s0opt[1]
        fr0 == IF fr0opt = None THEN Dec(2, 100) ELSE fr0opt[1]
        fr  == IF Below1e5(pe) THEN fr0 ELSE FDiv(r, pe)
        x   == FDiv(FMul(fr0, s0), fr)
        au  == FMul(ms, FSub(Scale, FRoot(FSub(Scale, FDiv(x, sm)), 1 + ex)))
        rs  == IF FLt(FAdd(pe, au), ms)
               THEN FMul(fr, FAdd(FSub(FAdd(pe, x), sm),
                                  FMul(sm, FPow(FSub(Scale, FDiv(FAdd(pe, au), ms)), ex + 1))))
               ELSE FMul(fr, FSub(FAdd(pe, x), sm))
        s   == FAdd(x, FDiv(FSub(r, rs), fr))
        ri  == FMul(FMul(P.KI, s), fr)
        rg  == FMul(FMul(P.KG, s), fr)
        s1  == FMul(s, Scale - P.KI - P.KG)
    IN  [rs |-> FMax(rs, 0), ri |-> FMax(ri, 0), rg |-> FMax(rg, 0),
         state |-> << fr, s1 >>, s0 |-> s0, fr0 |-> fr0]

\* sources5mm's default time_interval_hours
time_interval_hours == 24

hours_per_day == 24

\* the width of a slice of runoff, in mm
SliceMm == 5

\* the number of periods in a day
period_num_1d ==
    (hours_per_day \div time_interval_hours)
        + (IF hours_per_day % time_interval_hours # 0 THEN 1 ELSE 0)

\* a count that adds the slice of the remainder to every runoff of 5 mm
\* and more, a whole number of slices included
SliceCountPlusOne(runoff) ==
    IF runoff < SliceMm * Scale THEN 1
    ELSE (runoff \div (SliceMm * Scale)) + 1

\* the number n of slices of a runoff (finite, >= 0)
SliceCount(runoff) ==
    IF runoff < SliceMm * Scale THEN 1
    ELSE (runoff \div (SliceMm * Scale))
            + (IF runoff % (SliceMm * Scale) # 0 THEN 1 ELSE 0)

\* one pass of the slice loop in the book ShuiWenYuBao
SliceShuiWenYuBao(sm, ex, smm, pen, rn, kss_d, kg_d, fr_d, s_d0) ==
    LET ms   == smm
        s_d1 == IF FGt(s_d0, sm) THEN sm ELSE s_d0
        au   == FMul(ms, FSub(Scale, FRoot(FSub(Scale, FDiv(s_d1, sm)), 1 + ex)))
        rs_j == IF FGe(FAdd(pen, au), ms)
                THEN FMul(FSub(FAdd(pen, s_d1), sm), fr_d)
                ELSE FMul(FAdd(FAdd(FSub(pen, sm), s_d1),
                               FMul(sm, FPow(FSub(Scale, FDiv(FAdd(pen, au), ms)), ex + 1))),
                          fr_d)
        s_d2  == FAdd(s_d1, FDiv(FSub(rn, rs_j), fr_d))
        rss_j == FMul(FMul(s_d2, kss_d), fr_d)
        rg_j  == FMul(FMul(s_d2, kg_d), fr_d)
        s_d3  == FMul(s_d2, FAdd(FSub(Scale, rss_j), rg_j))
    IN  [rs_j |-> rs_j, rss_j |-> rss_j, rg_j |-> rg_j, s_d |-> s_d3]

\* one pass of the slice loop in the book GongChengShuiWenXue
SliceGongCheng(sm, ex, smm, pen, rn, kss_d, kg_d, fr_d, s_d0) ==
    LET smmf == FMul(smm, FSub(Scale, FRoot(FSub(Scale, fr_d), ex)))
        smf  == FDiv(smmf, (1 + ex) * Scale)
        s_d1 == IF FGt(s_d0, smf) THEN smf ELSE s_d0
        au   == FMul(smmf, FSub(Scale, FRoot(FSub(Scale, FDiv(s_d1, smf)), 1 + ex)))
        full == FGe(FAdd(pen, au), smmf)
        rs_j == IF full
                THEN FMul(FSub(FAdd(pen, s_d1), smf), fr_d)
                ELSE FMul(FAdd(FAdd(FSub(pen, smf), s_d1),
                               FMul(smf, FPow(FSub(Scale, FDiv(FAdd(pen, au), smmf)), ex + 1))),
                          fr_d)
        in_j  == FAdd(FSub(pen, FDiv(rs_j, fr_d)), s_d1)
        rss_j == IF full THEN FMul(FMul(smf, kss_d), fr_d)
                         ELSE FMul(FMul(in_j, kss_d), fr_d)
        rg_j  == IF full THEN FMul(FMul(smf, kg_d), fr_d)
                         ELSE FMul(FMul(in_j, kg_d), fr_d)
        s_d2  == IF full
                 THEN FSub(smf, FDiv(FAdd(rss_j, rg_j), fr_d))
                 ELSE FSub(FAdd(s_d1, pen), FDiv(FAdd(FAdd(rs_j, rss_j), rg_j), fr_d))
    IN  [rs_j |-> rs_j, rss_j |-> rss_j, rg_j |-> rg_j, s_d |-> s_d2]

(***************************************************************************)
(* The slice loop "for j in range(n)" of sources5mm, from pass j on: acc   *)
(* holds the lists s_ds and fr_ds and the running sums.                    *)
(***************************************************************************)
\* the end of a pass: the sums, and the two appends
SliceAppend(acc, fr_d, o) ==
    [s_ds  |-> Append(acc.s_ds, o.s_d),
     fr_ds |-> Append(acc.fr_ds, fr_d),
     rs    |-> FAdd(acc.rs, o.rs_j),
     rss   |-> FAdd(acc.rss, o.rss_j),
     rg    |-> FAdd(acc.rg, o.rg_j),
     passes |-> acc.passes + 1]

\* pass j, given its fr_d
SlicePass(j, P, book, pen, rn, kss_d, kg_d, acc, fr_d) ==
    SliceAppend(acc, fr_d,
        IF book = "ShuiWenYuBao"
        THEN SliceShuiWenYuBao(P.SM, P.EX, P.SM * (1 + P.EX), pen, rn, kss_d, kg_d, fr_d,
                               FDiv(FMul(acc.fr_ds[j + 1], acc.s_ds[j + 1]), fr_d))
        ELSE SliceGongCheng(P.SM, P.EX, P.SM * (1 + P.EX), pen, rn, kss_d, kg_d, fr_d,
                            FDiv(FMul(acc.fr_ds[j + 1], acc.s_ds[j + 1]), fr_d)))

RECURSIVE SliceLoop(_, _, _, _, _, _, _, _, _, _)
SliceLoop(j, n, P, book, fr, pen, rn, kss_d, kg_d, acc) ==
    IF j >= n THEN acc
    ELSE SliceLoop(j + 1, n, P, book, fr, pen, rn, kss_d, kg_d,
                   SlicePass(j, P, book, pen, rn, kss_d, kg_d, acc,
                             FSub(Scale, FRoot(FSub(Scale, fr), n))))

(***************************************************************************)
(* sources5mm, for one basin: the sub-stepped partitioner.  Returns the    *)
(* three runoffs and the state pair (fr_ds[-1], s_ds[-1]).                 *)
(***************************************************************************)
\* the values sources5mm computes before its loop
SlicePlan(pe, runoff, s0, fr0, kss_period, kg_period, n) ==
    [s0 |-> s0, fr0 |-> fr0,
     fr |-> FClip(IF Above1e5(pe) THEN FDiv(runoff, pe) ELSE fr0, Dec(1, 1000), Scale),
     n |-> n, rn |-> runoff \div n, pen |-> pe \div n,
     kss_period |-> kss_period, kg_period |-> kg_period,
     kss_d |-> Div(Scale - Root(Scale - (kss_period + kg_period), n),
                   Scale + Div(kg_period, kss_period)),
     kg_d  |-> Div(Mul(Div(Scale - Root(Scale - (kss_period + kg_period), n),
                           Scale + Div(kg_period, kss_period)),
                       kg_period),
                   kss_period)]

\* the return statement, with what was computed on the way
SliceReturn(plan, out) ==
    [rs |-> out.rs, ri |-> out.rss, rg |-> out.rg,
     state |-> << out.fr_ds[Len(out.fr_ds)], out.s_ds[Len(out.s_ds)] >>,
     s0 |-> plan.s0, fr0 |-> plan.fr0,
     n |-> plan.n, rn |-> plan.rn, pen |-> plan.pen, fr |-> plan.fr,
     kss_period |-> plan.kss_period, kg_period |-> plan.kg_period,
     kss_d |-> plan.kss_d, kg_d |-> plan.kg_d,
     s_ds |-> out.s_ds, fr_ds |-> out.fr_ds, passes |-> out.passes]

SliceRun(P, book, plan) ==
    SliceReturn(plan,
        SliceLoop(0, plan.n, P, book, plan.fr, plan.pen, plan.rn, plan.kss_d, plan.kg_d,
                  [s_ds |-> << plan.s0 >>, fr_ds |-> << plan.fr0 >>,
                   rs |-> 0, rss |-> 0, rg |-> 0, passes |-> 0]))

\* the period coefficients, given kss_period
PeriodPlan(pe, runoff, P, s0, fr0, kss_period) ==
    SlicePlan(pe, runoff, s0, fr0, kss_period, Div(Mul(kss_period, P.KG), P.KI),
              SliceCount(runoff))

sources5mm(pe, runoff, P, s0opt, fr0opt, book) ==
    SliceRun(P, book,
        PeriodPlan(pe, runoff, P,
                   IF s0opt = None THEN Mul(Dec(60, 100), P.SM) ELSE s0opt[1],
                   IF fr0opt = None THEN Dec(2, 100) ELSE fr0opt[1],
                   Div(Scale - Root(Scale - (P.KI + P.KG), period_num_1d),
                       Scale + Div(P.KG, P.KI))))

(***************************************************************************)
(* The arguments of a call of xaj.                                         *)
(***************************************************************************)
\* p_and_e[b, t, :] of one basin at one timestep: <<prcp, pet>> in mm
ForcingValues ==
    { << 10 * Scale, 3 * Scale >>, << 0, 3 * Scale >>, << 30 * Scale, 3 * Scale >> }

StateKeys == { "WU0", "WL0", "WD0", "S0", "FR0", "QS0", "QI0", "QG0" }

\* states: None, a mapping with every key, a mapping with some keys
StatesArgs ==
    { [given |-> FALSE, map |-> << >>],
      [given |-> TRUE,
       map |-> [WU0 |-> 25 * Scale, WL0 |-> 50 * Scale, WD0 |-> 0 - 5 * Scale,
                S0 |-> 20 * Scale, FR0 |-> Dec(1, 10),
                QS0 |-> 2 * Scale, QI0 |-> Scale, QG0 |-> 3 * Scale]],
      [given |-> TRUE, map |-> [WU0 |-> 10 * Scale, S0 |-> 20 * Scale]] }

\* uh: None, or a list of ordinates
UhArgs == { None, Some(<< Scale >>), Some(<< Dec(5, 10), Dec(3, 10), Dec(2, 10) >>) }

SourceTypes == { "sources", "sources5mm", "sources2" }

SourceBooks == { "ShuiWenYuBao", "GongChengShuiWenXue" }

(***************************************************************************)
(* The truth value of a numpy array in "if a > b": an array of more than   *)
(* one element has none (ValueError); a scalar, or an array of one         *)
(* element, has its element's.                                             *)
(***************************************************************************)
Ambiguous(isArray, nb) == isArray /\ nb > 1

(***************************************************************************)
(* The state of a run of xaj.                                              *)
(***************************************************************************)
VARIABLES
    pc,          \* where the run is: "call", "loop1", "loop2", "done", "raised"
    err,         \* the exception that ended the run, "" if none
    cfg,         \* the arguments of the call
    i,           \* the loop index
    forcing,     \* p_and_e[:, 0..i-1, :], the forcing read so far
    init0,       \* wu0, wl0, wd0, s0, fr0, qs0, qi0, qg0 after "state_variables"
    w,           \* generation's returned (wu, wl, wd), per basin
    S,           \* the partitioner's returned pair, per basin
    lists,       \* runoff_ims_, rss_, ris_, rgs_
    route,       \* rss_route, qs_, the current qs, qi, qg, and the ones before
    Qs,          \* the discharges appended so far
    trace,       \* per timestep and basin, what generation and the partitioner
                 \* received and returned
    fn           \* the last call of a function on its own (SpecGen, SpecSrc)

vars == << pc, err, cfg, i, forcing, init0, w, S, lists, route, Qs, trace, fn >>

runVars == << pc, err, cfg, i, forcing, init0, w, S, lists, route, Qs, trace >>

Basins == 1 .. cfg.nb

NoInit0 == [k \in StateKeys |-> None]

NoLists == [runoff_ims_ |-> << >>, rss_ |-> << >>, ris_ |-> << >>, rgs_ |-> << >>]

NoRoute ==
    [rss_route |-> << >>, qs_ |-> << >>, qs |-> << >>, qi |-> << >>, qg |-> << >>,
     hist |-> << >>]

Init ==
    /\ pc = "call"
    /\ err = ""
    /\ cfg \in [nb : 1 .. MaxBasins, T : 0 .. MaxT, params : ParamSets,
                states : StatesArgs, uh : UhArgs,
                source_type : SourceTypes, source_book : SourceBooks]
    \* source_book is read by sources5mm alone: elsewhere it keeps its default
    /\ cfg.source_type # "sources5mm" => cfg.source_book = "ShuiWenYuBao"
    /\ i = 0
    /\ forcing = << >>
    /\ init0 = NoInit0
    /\ w = << >>
    /\ S = << >>
    /\ lists = NoLists
    /\ route = NoRoute
    /\ Qs = << >>
    /\ trace = << >>
    /\ fn = [name |-> "none"]

\* the run ends with exception e
Raise(e) ==
    /\ pc' = "raised"
    /\ err' = e

(***************************************************************************)
(* xaj up to the first loop: the parameters, the unit hydrograph and the   *)
(* initial states.  states[k] of an absent key is a KeyError.              *)
(***************************************************************************)
Setup ==
    /\ pc = "call"
    /\ IF cfg.states.given /\ ~(StateKeys \subseteq DOMAIN cfg.states.map)
       THEN /\ Raise("KeyError")
            /\ UNCHANGED init0
       ELSE /\ pc' = "loop1"
            /\ err' = ""
            /\ init0' = IF cfg.states.given
                        THEN [k \in StateKeys |-> Some(cfg.states.map[k])]
                        ELSE NoInit0
    /\ i' = 0
    /\ lists' = NoLists
    /\ UNCHANGED << cfg, forcing, w, S, route, Qs, trace, fn >>

(***************************************************************************)
(* The positional arguments of the calls in the first loop.  At i = 0 the  *)
(* initial states are passed by name; afterwards the returned tuples are   *)
(* unpacked in their order: generation(..., *w) and sources(..., *S) bind  *)
(* the tuple's first element to the first optional parameter, and so on.   *)
(***************************************************************************)
GenArgs(b) ==
    IF i = 0 THEN << init0["WU0"], init0["WL0"], init0["WD0"] >>
             ELSE << Some(w[b][1]), Some(w[b][2]), Some(w[b][3]) >>

\* <<s0, fr0>> as sources and sources5mm receive them
SrcArgs(b) ==
    IF i = 0 THEN << init0["S0"], init0["FR0"] >>
             ELSE << Some(S[b][1]), Some(S[b][2]) >>

\* the call of the partitioner that source_type names, on generation's g
PartitionOf(source_type, book, P, g, args) ==
    IF source_type = "sources"
    THEN sources(g.pe, g.r, P, args[1], args[2])
    ELSE sources5mm(g.pe, g.r, P, args[1], args[2], book)

\* the partitioner's result for basin b, given generation's g
Partition(b, g) ==
    PartitionOf(cfg.source_type, cfg.source_book, cfg.params, g, SrcArgs(b))

\* the exception of the body of the first loop at index i, "" if none
StepError ==
    IF Ambiguous(i > 0, cfg.nb) THEN "ValueError"
    ELSE IF cfg.source_type = "sources" THEN ""
    ELSE IF cfg.source_type = "sources5mm"
         THEN (IF Ambiguous(TRUE, cfg.nb) THEN "ValueError" ELSE "")
    ELSE "NotImplementedError"

(***************************************************************************)
(* One pass of the first loop: generation, then the partitioner, then the  *)
(* four appends.                                                           *)
(***************************************************************************)
\* generation and the partitioner for basin b under forcing fb
WithGeneration(b, g) == [gen |-> g, src |-> Partition(b, g)]

BasinStep(b, fb) ==
    WithGeneration(b, generation(fb, cfg.params, GenArgs(b)[1], GenArgs(b)[2], GenArgs(b)[3]))

\* the calls of one pass for basins 1 .. b (the rows of the batch arrays)
RECURSIVE BasinSteps(_, _)
BasinSteps(f, b) ==
    IF b = 0 THEN << >> ELSE Append(BasinSteps(f, b - 1), BasinStep(b, f[b]))

\* the assignments and appends of a pass whose calls returned tr
Advance(tr) ==
    /\ pc' = "loop1"
    /\ err' = ""
    /\ i' = i + 1
    /\ w' = [b \in Basins |-> << tr[b].gen.wu, tr[b].gen.wl, tr[b].gen.wd >>]
    /\ S' = [b \in Basins |-> tr[b].src.state]
    /\ lists' =
         [runoff_ims_ |-> Append(lists.runoff_ims_, [b \in Basins |-> tr[b].gen.rim]),
          rss_ |-> Append(lists.rss_, [b \in Basins |-> tr[b].src.rs]),
          ris_ |-> Append(lists.ris_, [b \in Basins |-> tr[b].src.ri]),
          rgs_ |-> Append(lists.rgs_, [b \in Basins |-> tr[b].src.rg])]
    /\ trace' = Append(trace, tr)

TimeStep ==
    /\ pc = "loop1"
    /\ i < cfg.T
    /\ \E f \in [Basins -> ForcingValues] :
         /\ forcing' = Append(forcing, f)
         /\ IF StepError # ""
            THEN /\ Raise(StepError)
                 /\ UNCHANGED << i, w, S, lists, trace >>
            ELSE Advance(BasinSteps(f, cfg.nb))
    /\ UNCHANGED << cfg, init0, route, Qs, fn >>

(***************************************************************************)
(* signal.convolve(x, h) in its default mode "full": Len(x) + Len(h) - 1   *)
(* values, the n-th the sum of x[m] * h[n - m + 1] over the m for which    *)
(* both exist (sequences count from 1).                                    *)
(***************************************************************************)
RECURSIVE ConvolveSum(_, _, _, _)
ConvolveSum(x, h, n, m) ==
    IF m > Len(x) THEN 0
    ELSE FAdd(IF n - m + 1 >= 1 /\ n - m + 1 <= Len(h)
              THEN FMul(x[m], h[n - m + 1]) ELSE 0,
              ConvolveSum(x, h, n, m + 1))

\* the convolution in mode "same": as many values as x has, taken from the
\* middle of the full convolution
convolve_same(x, h) ==
    [n \in 1 .. Len(x) |-> ConvolveSum(x, h, n + (Len(h) - 1) \div 2, 1)]

convolve(x, h) == [n \in 1 .. (Len(x) + Len(h) - 1) |-> ConvolveSum(x, h, n, 1)]

(***************************************************************************)
(* Between the loops: np.stack of the lists (a ValueError on an empty      *)
(* list), the surface inflow runoff_im + rss, and in unit-hydrograph mode  *)
(* its convolution with the ordinates.                                     *)
(***************************************************************************)
Stack ==
    /\ pc = "loop1"
    /\ i = cfg.T
    /\ IF lists.runoff_ims_ = << >>
       THEN /\ Raise("ValueError")
            /\ UNCHANGED << i, route >>
       ELSE LET rss_route ==
                    [b \in Basins |->
                        [t \in 1 .. cfg.T |->
                            FAdd(lists.runoff_ims_[t][b], lists.rss_[t][b])]]
            IN  /\ pc' = "loop2"
                /\ err' = ""
                /\ i' = 0
                /\ route' = [rss_route |-> rss_route,
                             qs_ |-> IF cfg.uh = None THEN << >>
                                     ELSE [b \in Basins |-> convolve(rss_route[b], cfg.uh[1])],
                             qs |-> << >>, qi |-> << >>, qg |-> << >>, hist |-> << >>]
    /\ UNCHANGED << cfg, forcing, init0, w, S, lists, Qs, trace, fn >>

\* the reservoir with its two weights exchanged
linear_reservoir_swapped(inflow, qprev, k) ==
    FAdd(FMul(inflow, k), FMul(qprev, Scale - k))

\* q[t] = inflow * (1 - k) + q[t-1] * k
linear_reservoir(inflow, qprev, k) ==
    FAdd(FMul(inflow, Scale - k), FMul(qprev, k))

\* an initial flow: the supplied one, or 0.01
InitialFlow(opt) == IF opt = None THEN Dec(1, 100) ELSE opt[1]

(***************************************************************************)
(* One pass of the second loop: the three routed flows and their sum.      *)
(***************************************************************************)
RouteStep ==
    /\ pc = "loop2"
    /\ i < cfg.T
    /\ LET t  == i + 1
           qs == [b \in Basins |->
                    IF cfg.uh = None
                    THEN linear_reservoir(route.rss_route[b][t],
                                          IF i = 0 THEN InitialFlow(init0["QS0"])
                                                   ELSE route.qs[b],
                                          cfg.params.CS)
                    ELSE route.qs_[b][t]]
           qi == [b \in Basins |->
                    linear_reservoir(lists.ris_[t][b],
                                     IF i = 0 THEN InitialFlow(init0["QI0"])
                                              ELSE route.qi[b],
                                     cfg.params.CI)]
           qg == [b \in Basins |->
                    linear_reservoir(lists.rgs_[t][b],
                                     IF i = 0 THEN InitialFlow(init0["QG0"])
                                              ELSE route.qg[b],
                                     cfg.params.CG)]
       IN  /\ route' = [route EXCEPT !.qs = qs, !.qi = qi, !.qg = qg,
                                     !.hist = Append(@, [qs |-> qs, qi |-> qi, qg |-> qg])]
           /\ Qs' = Append(Qs, [b \in Basins |-> FAdd(FAdd(qs[b], qi[b]), qg[b])])
    /\ i' = i + 1
    /\ UNCHANGED << pc, err, cfg, forcing, init0, w, S, lists, trace, fn >>

\* Q = np.stack(Qs); return Q
Return ==
    /\ pc = "loop2"
    /\ i = cfg.T
    /\ pc' = "done"
    /\ UNCHANGED << err, cfg, i, forcing, init0, w, S, lists, route, Qs, trace, fn >>

Next == Setup \/ TimeStep \/ Stack \/ RouteStep \/ Return

Spec == Init /\ [][Next]_vars

(***************************************************************************)
(* generation on its own: one call, on a previous state and a forcing      *)
(* drawn from sets that hold values inside and outside the valid ranges.   *)
(***************************************************************************)
IdleRun ==
    /\ pc = "idle"
    /\ err = ""
    /\ cfg = [nb |-> 1, T |-> 0, params |-> CHOOSE P \in ParamSets : P.B = 1,
              states |-> [given |-> FALSE, map |-> << >>], uh |-> None,
              source_type |-> "sources", source_book |-> "ShuiWenYuBao"]
    /\ i = 0
    /\ forcing = << >>
    /\ init0 = NoInit0
    /\ w = << >>
    /\ S = << >>
    /\ lists = NoLists
    /\ route = NoRoute
    /\ Qs = << >>
    /\ trace = << >>

\* fractions of a capacity, below, inside and above its range
StorageLevels(cap) == { 0 - cap \div 4, 0, cap \div 4, Mul(Dec(6, 10), cap), cap, cap + cap \div 4 }

GenForcing ==
    { 0 - 2 * Scale, 0, 2 * Scale, 5 * Scale, 10 * Scale, 30 * Scale, 100 * Scale }
        \X { 0 - Scale, 0, 3 * Scale, 6 * Scale }

InitGen ==
    /\ IdleRun
    /\ \E P \in ParamSets :
         fn \in [name : { "generation" }, done : { FALSE }, out : { << >> },
                 P : { P }, p_and_e : GenForcing,
                 wu0 : StorageLevels(P.UM), wl0 : StorageLevels(P.LM),
                 wd0 : { 0, Mul(Dec(6, 10), P.DM), P.DM, P.DM + P.DM \div 4 }]

GenerationCall ==
    /\ fn.name = "generation"
    /\ ~fn.done
    /\ fn' = [fn EXCEPT !.done = TRUE,
                        !.out = generation(fn.p_and_e, fn.P,
                                           Some(fn.wu0), Some(fn.wl0), Some(fn.wd0))]
    /\ UNCHANGED runVars

SpecGen == InitGen /\ [][GenerationCall]_vars

(***************************************************************************)
(* sources5mm on its own: one call, on a net rainfall, a runoff of up to   *)
(* MaxSlices slices and a previous state drawn from sets.                  *)
(***************************************************************************)
\* runoffs in steps of half a slice, and the values next to a slice's edge
SliceRunoffs ==
    { (k * SliceMm * Scale) \div 2 : k \in 0 .. 2 * MaxSlices }
        \cup { k * SliceMm * Scale + d : k \in 1 .. MaxSlices - 1, d \in { 0 - 1, 1 } }

InitSrc ==
    /\ IdleRun
    /\ fn \in [name : { "sources5mm" }, done : { FALSE }, out : { << >> },
               P : ParamSets, book : SourceBooks,
               runoff : SliceRunoffs,
               pe : { 0, 4 * Scale, (SliceMm * MaxSlices + 1) * Scale },
               s0 : { None, Some(0), Some(10 * Scale) },
               fr0 : { None, Some(Dec(5, 10)), Some(Scale) }]

Sources5mmCall ==
    /\ fn.name = "sources5mm"
    /\ ~fn.done
    /\ fn' = [fn EXCEPT !.done = TRUE,
                        !.out = sources5mm(fn.pe, fn.runoff, fn.P, fn.s0, fn.fr0, fn.book)]
    /\ UNCHANGED runVars

SpecSrc == InitSrc /\ [][Sources5mmCall]_vars

(***************************************************************************)
(* What the claims speak of.                                               *)
(***************************************************************************)
\* the partitioners return the pair (FR, S): the area fraction first, the
\* free-water storage second
ReturnedFR(src) == src.state[1]

ReturnedS(src) == src.state[2]

ValidSourceType == cfg.source_type \in { "sources", "sources5mm" }

\* states is None or holds every key
StatesComplete == ~cfg.states.given \/ StateKeys \subseteq DOMAIN cfg.states.map

Ended == pc \in { "done", "raised" }

(***************************************************************************)
(* C1.  At every timestep t >= 1 the partitioner receives as s0 the S and  *)
(* as fr0 the FR it returned at t-1, and generation receives as wu0, wl0,  *)
(* wd0 the WU, WL, WD it returned at t-1.  (The code unpacks the returned  *)
(* pair (FR, S) into (s0, fr0): violated.)                                 *)
(***************************************************************************)
C1_StateCarriedToNextStep ==
    \A t \in 2 .. Len(trace) : \A b \in Basins :
        /\ trace[t][b].src.s0 = ReturnedS(trace[t - 1][b].src)
        /\ trace[t][b].src.fr0 = ReturnedFR(trace[t - 1][b].src)
        /\ trace[t][b].gen.wu0 = trace[t - 1][b].gen.wu
        /\ trace[t][b].gen.wl0 = trace[t - 1][b].gen.wl
        /\ trace[t][b].gen.wd0 = trace[t - 1][b].gen.wd

(***************************************************************************)
(* C3.  A call with a states mapping that holds only some of the keys does *)
(* not fail: the present keys take their values and the absent ones their  *)
(* defaults (None, which the callee replaces by the default).  (The code   *)
(* subscripts every key: violated.)                                        *)
(***************************************************************************)
C3_PartialStatesTakeDefaults ==
    (cfg.states.given /\ pc # "call") =>
        /\ err # "KeyError"
        /\ \A k \in StateKeys :
              init0[k] = IF k \in DOMAIN cfg.states.map
                         THEN Some(cfg.states.map[k]) ELSE None

(***************************************************************************)
(* C4.  A call with a source_type other than "sources" and "sources5mm"    *)
(* ends in NotImplementedError and returns no discharge, for a forcing of  *)
(* any length, zero included, and either routing mode.  (With no timestep  *)
(* the test of source_type is never reached and np.stack of an empty list  *)
(* raises ValueError: violated.)                                           *)
(***************************************************************************)
C4_UnknownSourceTypeNotImplemented ==
    (~ValidSourceType /\ StatesComplete /\ Ended) =>
        /\ pc = "raised"
        /\ err = "NotImplementedError"
        /\ Qs = << >>

(***************************************************************************)
(* C6.  In a run from the default initial state, after every timestep the  *)
(* carried free-water state has 0 < FR <= 1 and S >= 0, under either       *)
(* partitioner.  (After a timestep without net rainfall sources returns as *)
(* FR the fr0 it received, which is the S of the step before: violated.)   *)
(***************************************************************************)
C6_FreeWaterStateInRange ==
    (~cfg.states.given /\ ValidSourceType) =>
        \A t \in 1 .. Len(trace) : \A b \in Basins :
            /\ FGt(ReturnedFR(trace[t][b].src), 0)
            /\ FGe(Scale, ReturnedFR(trace[t][b].src))
            /\ FGe(ReturnedS(trace[t][b].src), 0)

(***************************************************************************)
(* C5.  Whatever the previous state and the forcing, negative values       *)
(* included, the soil moisture generation returns has 0 <= WU <= UM,       *)
(* 0 <= WL <= LM and 0 <= WD <= DM.                                        *)
(***************************************************************************)
C5_SoilMoistureWithinCapacity ==
    (fn.name = "generation" /\ fn.done) =>
        /\ 0 <= fn.out.wu /\ fn.out.wu <= fn.P.UM
        /\ 0 <= fn.out.wl /\ fn.out.wl <= fn.P.LM
        /\ 0 <= fn.out.wd /\ fn.out.wd <= fn.P.DM

\* a call with a negative rainfall on an upper layer above its capacity,
\* which comes back at the capacity
C5_ClippedAtCapacity ==
    /\ fn.name = "generation" /\ fn.done
    /\ fn.p_and_e[1] < 0
    /\ fn.wu0 > fn.P.UM
    /\ fn.out.wu = fn.P.UM

\* the previous soil moisture of a generation call lies within its bounds
PreviousWithinBounds ==
    /\ 0 <= fn.wu0 /\ fn.wu0 <= fn.P.UM
    /\ 0 <= fn.wl0 /\ fn.wl0 <= fn.P.LM
    /\ 0 <= fn.wd0 /\ fn.wd0 <= fn.P.DM

\* the tolerance of a comparison of two depths: a thousandth of a mm
Tolerance == Scale \div 1000

Near(x, y) == x - y <= Tolerance /\ y - x <= Tolerance

(***************************************************************************)
(* C7.  For a generation step with net rainfall pe > 0 on a previous state *)
(* within its bounds, WU + WL + WD = WU0 + WL0 + WD0 + pe - r - e, within  *)
(* the tolerance.  (calculate_w_storage takes e off the net rainfall once  *)
(* more; when 0 < pe <= e it follows its dry branch and the storage loses  *)
(* e alone: violated.)                                                     *)
(***************************************************************************)
C7_WaterBalanceWithNetRainfall ==
    (fn.name = "generation" /\ fn.done /\ fn.out.pe > 0 /\ PreviousWithinBounds) =>
        Near(fn.out.wu + fn.out.wl + fn.out.wd,
             fn.wu0 + fn.wl0 + fn.wd0 + fn.out.pe - fn.out.r - fn.out.e)

\* ceil(x / y) for y > 0
CeilDiv(x, y) == 0 - ((0 - x) \div y)

SurfaceInflow(t, b) == trace[t][b].src.rs + trace[t][b].gen.rim

\* q[-1] of a routed flow: the one supplied under key, or 0.01
SuppliedOrDefault(key) ==
    IF cfg.states.given THEN cfg.states.map[key] ELSE Scale \div 100

\* inflow * (1 - k) + before * k
Recurrence(inflow, before, k) == Mul(inflow, Scale - k) + Mul(before, k)

(***************************************************************************)
(* C8.  In linear-reservoir mode (uh is None), at every timestep each of   *)
(* the three routed flows is q[t] = inflow[t] * (1 - k) + q[t-1] * k, with *)
(* k = CS and inflow = rs + r_im for the surface flow, k = CI and          *)
(* inflow = ri for interflow, k = CG and inflow = rg for groundwater, and  *)
(* q[-1] the supplied QS0, QI0, QG0 or 0.01; the output at t is the sum of *)
(* the three; with k = 0 the routed flow is inflow[t].                     *)
(***************************************************************************)
C8_LinearReservoirRecurrence ==
    (cfg.uh = None /\ pc \in { "loop2", "done" }) =>
        \A t \in 1 .. Len(route.hist) : \A b \in Basins :
            /\ route.hist[t].qs[b] =
                  Recurrence(SurfaceInflow(t, b),
                             IF t = 1 THEN SuppliedOrDefault("QS0")
                                      ELSE route.hist[t - 1].qs[b],
                             cfg.params.CS)
            /\ route.hist[t].qi[b] =
                  Recurrence(trace[t][b].src.ri,
                             IF t = 1 THEN SuppliedOrDefault("QI0")
                                      ELSE route.hist[t - 1].qi[b],
                             cfg.params.CI)
            /\ route.hist[t].qg[b] =
                  Recurrence(trace[t][b].src.rg,
                             IF t = 1 THEN SuppliedOrDefault("QG0")
                                      ELSE route.hist[t - 1].qg[b],
                             cfg.params.CG)
            /\ Qs[t][b] = route.hist[t].qs[b] + route.hist[t].qi[b] + route.hist[t].qg[b]
            /\ cfg.params.CS = 0 => route.hist[t].qs[b] = SurfaceInflow(t, b)

\* a finished run in linear-reservoir mode, of two timesteps or more, from
\* supplied initial flows
C8_RoutedFromSuppliedFlows ==
    /\ pc = "done"
    /\ cfg.uh = None
    /\ cfg.states.given
    /\ Len(route.hist) >= 2
    /\ Len(Qs) = cfg.T

\* the sum over k in from .. min(t - 1, K - 1) of uh[k] * x[t - k], for the
\* 1-based timestep t and the 0-based k
RECURSIVE CausalSum(_, _, _, _)
CausalSum(uh, t, b, from) ==
    IF from > t - 1 \/ from > Len(uh) - 1 THEN 0
    ELSE Mul(SurfaceInflow(t - from, b), uh[from + 1]) + CausalSum(uh, t, b, from + 1)

(***************************************************************************)
(* C9.  In unit-hydrograph mode with a list uh of K >= 1 ordinates, the    *)
(* surface discharge used at timestep t is the sum over k in               *)
(* 0 .. min(t, K - 1) of uh[k] * (rs + r_im)[t - k], which reads no later  *)
(* timestep; the loop uses one value per timestep of the input; and with   *)
(* uh = [1.0] the value is (rs + r_im)[t].                                 *)
(***************************************************************************)
C9_UnitHydrographCausal ==
    (cfg.uh # None /\ pc \in { "loop2", "done" }) =>
        /\ pc = "done" => Len(route.hist) = cfg.T
        /\ \A t \in 1 .. Len(route.hist) : \A b \in Basins :
              /\ route.hist[t].qs[b] = CausalSum(cfg.uh[1], t, b, 0)
              /\ cfg.uh[1] = << Scale >> => route.hist[t].qs[b] = SurfaceInflow(t, b)

\* a finished run in unit-hydrograph mode with more ordinates than one,
\* long enough for every ordinate to weigh on the last timestep
C9_EveryOrdinateUsed ==
    /\ pc = "done"
    /\ cfg.uh # None
    /\ Len(cfg.uh[1]) >= 2
    /\ Len(route.hist) >= Len(cfg.uh[1])
    /\ SurfaceInflow(1, 1) > 0

(***************************************************************************)
(* xaj on basin b alone, with the parameters, initial states and forcing   *)
(* of the run: the same calls as the first loop makes, the same unpacking  *)
(* of the returned tuples, and the same routing, on a batch of one.        *)
(***************************************************************************)
\* generation's g with the partitioner's result on it
WithGenerationOf(g, args) ==
    [gen |-> g, src |-> PartitionOf(cfg.source_type, cfg.source_book, cfg.params, g, args)]

\* the pass of the first loop at timestep t (1-based), after the passes tr
SoloPass(b, t, tr) ==
    WithGenerationOf(
        generation(forcing[t][b], cfg.params,
                   IF t = 1 THEN init0["WU0"] ELSE Some(tr[t - 1].gen.wu),
                   IF t = 1 THEN init0["WL0"] ELSE Some(tr[t - 1].gen.wl),
                   IF t = 1 THEN init0["WD0"] ELSE Some(tr[t - 1].gen.wd)),
        IF t = 1 THEN << init0["S0"], init0["FR0"] >>
                 ELSE << Some(tr[t - 1].src.state[1]), Some(tr[t - 1].src.state[2]) >>)

SoloAppend(b, t, tr) == Append(tr, SoloPass(b, t, tr))

\* the three routed flows at timestep t, after the flows q of the timesteps
\* before
SoloRoute(tr, t, q) ==
    Append(q,
        [qs |-> IF cfg.uh = None
                THEN linear_reservoir(FAdd(tr[t].gen.rim, tr[t].src.rs),
                                      IF t = 1 THEN InitialFlow(init0["QS0"]) ELSE q[t - 1].qs,
                                      cfg.params.CS)
                ELSE convolve([u \in 1 .. Len(tr) |-> FAdd(tr[u].gen.rim, tr[u].src.rs)],
                              cfg.uh[1])[t],
         qi |-> linear_reservoir(tr[t].src.ri,
                                 IF t = 1 THEN InitialFlow(init0["QI0"]) ELSE q[t - 1].qi,
                                 cfg.params.CI),
         qg |-> linear_reservoir(tr[t].src.rg,
                                 IF t = 1 THEN InitialFlow(init0["QG0"]) ELSE q[t - 1].qg,
                                 cfg.params.CG)])

\* q = qs + qi + qg
SoloSum(q) == FAdd(FAdd(q.qs, q.qi), q.qg)

RECURSIVE SoloTrace(_, _)
SoloTrace(b, t) ==
    IF t = 0 THEN << >>
    ELSE SoloAppend(b, t, SoloTrace(b, t - 1))

\* the routed flows of the timesteps 1 .. t of the passes tr
RECURSIVE SoloRouted(_, _)
SoloRouted(tr, t) ==
    IF t = 0 THEN << >>
    ELSE SoloRoute(tr, t, SoloRouted(tr, t - 1))

\* Q[b, t] of the run on basin b alone
SoloQ(b, t) == SoloSum(SoloRouted(SoloTrace(b, cfg.T), cfg.T)[t])

(***************************************************************************)
(* C2.  A run on a batch of N >= 2 basins over T >= 1 timesteps completes  *)
(* and returns for every basin the discharge series of the run on that     *)
(* basin alone.  (From the second timestep on generation tests             *)
(* "if w0_ > wm" on an array of N elements, and sources5mm tests           *)
(* "if runoff < 5" on one at the first: ValueError, violated.)             *)
(***************************************************************************)
C2_BatchRunsAsSingleRuns ==
    (cfg.nb >= 2 /\ cfg.T >= 1 /\ ValidSourceType /\ StatesComplete) =>
        /\ pc # "raised"
        /\ pc = "done" =>
              \A b \in Basins : \A t \in 1 .. cfg.T : Qs[t][b] = SoloQ(b, t)

====
